---- MODULE Spec2Model ----
(***************************************************************************)
(* A model of weather_app.py: the input classifier (validate_input), the   *)
(* report renderer (display_weather), the weather client, the menu loop    *)
(* (run, check_weather, change_units) and the startup probe (main).        *)
(*                                                                         *)
(* Python strings on which the code calls string methods (strip, lower,    *)
(* isspace, isdigit, replace, title) are sequences of one-character        *)
(* strings; text that is only printed is a TLA+ string.  Printed text is   *)
(* kept without the decorative emoji of the source.                        *)
(***************************************************************************)
EXTENDS Integers, Sequences, FiniteSets, TLC

VARIABLES
    pc,            \* where control is: a prompt the process blocks on, or Exited
    units,         \* WeatherApp.units ("unset" before the WeatherApp exists)
    location,      \* check_weather's local `location` while the country prompt is open
    sent,          \* the HTTP requests issued by the last step
    out,           \* the lines printed by the last step
    inp,           \* the last event read from the terminal
    picked,        \* history: the unit the user last selected in the units sub-menu
    weather_data,  \* the argument of display_weather (renderer specification)
    ret,           \* the value returned by the function under study
    wind_dir,      \* the wind degree given to the compass mapping
    probe,         \* how the startup request of main() ended
    reply          \* how the last request of the weather client ended

vars ==
    <<pc, units, location, sent, out, inp, picked, weather_data, ret, wind_dir,
      probe, reply>>

(***************************************************************************)
(* Bounds of the model.                                                    *)
(***************************************************************************)
\* longest location string given to validate_input in SpecValidate
MaxLen == 6
\* wind degrees range over -MaxDeg .. MaxDeg + 360 in SpecCompass
MaxDeg == 450

(***************************************************************************)
(* Python string methods, on sequences of characters.                      *)
(***************************************************************************)
WhitespaceChars == {" ", "\t"}
DigitChars == {"0", "1", "2", "3", "4", "5", "6", "7", "8", "9"}

\* str.isspace(): at least one character and all of them whitespace
isspace(s) == Len(s) > 0 /\ \A i \in 1..Len(s) : s[i] \in WhitespaceChars

\* str.isdigit(): at least one character and all of them digits
isdigit(s) == Len(s) > 0 /\ \A i \in 1..Len(s) : s[i] \in DigitChars

\* str.replace(old, ""), for a one-character old
RECURSIVE remove(_, _)
remove(s, old) ==
    IF s = <<>> THEN <<>>
    ELSE IF Head(s) = old THEN remove(Tail(s), old)
    ELSE <<Head(s)>> \o remove(Tail(s), old)

RECURSIVE lstrip(_)
lstrip(s) ==
    IF s # <<>> /\ Head(s) \in WhitespaceChars THEN lstrip(Tail(s)) ELSE s

RECURSIVE rstrip(_)
rstrip(s) ==
    IF s # <<>> /\ s[Len(s)] \in WhitespaceChars
    THEN rstrip(SubSeq(s, 1, Len(s) - 1)) ELSE s

\* str.strip()
strip(s) == rstrip(lstrip(s))

UpperOf ==
    [a |-> "A", b |-> "B", c |-> "C", d |-> "D", e |-> "E", f |-> "F", g |-> "G",
     h |-> "H", i |-> "I", j |-> "J", k |-> "K", l |-> "L", m |-> "M", n |-> "N",
     o |-> "O", p |-> "P", q |-> "Q", r |-> "R", s |-> "S", t |-> "T", u |-> "U",
     v |-> "V", w |-> "W", x |-> "X", y |-> "Y", z |-> "Z"]

LowerChars == DOMAIN UpperOf
UpperChars == {UpperOf[c] : c \in LowerChars}

upperChar(c) == IF c \in LowerChars THEN UpperOf[c] ELSE c
lowerChar(c) ==
    IF c \in UpperChars THEN CHOOSE l \in LowerChars : UpperOf[l] = c ELSE c

\* str.lower()
lower(s) == [i \in 1..Len(s) |-> lowerChar(s[i])]

\* str.title(): a letter is upper-cased after a non-letter, lower-cased after a letter
title(s) ==
    [i \in 1..Len(s) |->
        IF i > 1 /\ s[i - 1] \in (LowerChars \cup UpperChars)
        THEN lowerChar(s[i]) ELSE upperChar(s[i])]

\* the printed text of a character sequence
RECURSIVE Join(_)
Join(s) == IF s = <<>> THEN "" ELSE Head(s) \o Join(Tail(s))

(***************************************************************************)
(* WeatherApp.validate_input                                               *)
(***************************************************************************)
\* a faulty variant: the length test of the ZIP branch made strict
validate_input_strict(input_str) ==
    IF input_str = <<>> \/ isspace(input_str)
    THEN <<FALSE, "Input cannot be empty.">>
    ELSE IF isdigit(remove(input_str, "-")) /\ Len(remove(input_str, "-")) > 5
    THEN <<TRUE, "zip">>
    ELSE <<TRUE, "city">>

validate_input(input_str) ==
    IF input_str = <<>> \/ isspace(input_str)
    THEN <<FALSE, "Input cannot be empty.">>
    ELSE IF isdigit(remove(input_str, "-")) /\ Len(remove(input_str, "-")) >= 5
    THEN <<TRUE, "zip">>
    ELSE <<TRUE, "city">>

(***************************************************************************)
(* The wind-degree-to-compass mapping of display_weather.                  *)
(***************************************************************************)
directions == <<"N", "NE", "E", "SE", "S", "SW", "W", "NW">>

\* Python's round(d / 45) for an integer d: d / 45 is never halfway between
\* two integers (2d + 45 is odd), so rounding to nearest is floor(d/45 + 1/2).
round45(d) == (2 * d + 45) \div 90

\* a faulty variant: int(d / 45) truncation in place of round
compass_index_trunc(d) == (IF d >= 0 THEN d \div 45 ELSE -((-d) \div 45)) % 8

compass_index(d) == round45(d) % 8

compass(d) == directions[compass_index(d) + 1]

(***************************************************************************)
(* JSON values.  A scalar is a number, a string or None, tagged so that    *)
(* Python's == between values of different types is plain inequality.  A   *)
(* dict is a record whose every key holds <<>> (key absent) or <<value>>.  *)
(***************************************************************************)
Num(n) == [t |-> "num", n |-> n, s |-> <<>>]
Str(cs) == [t |-> "str", n |-> 0, s |-> cs]
None == [t |-> "none", n |-> 0, s |-> <<>>]

\* "N/A", the per-field default of display_weather
NA == Str(<<"N", "/", "A">>)

\* dict.get(key, default) on the slot of the key
Get(slot, default) == IF Len(slot) = 0 THEN default ELSE slot[1]

\* {value} or nothing: the slots a key can hold
Opt(S) == {<<>>} \cup {<<x>> : x \in S}

\* str(value), as an f-string formats it
Fmt(v) ==
    CASE v.t = "num" -> ToString(v.n)
      [] v.t = "str" -> Join(v.s)
      [] OTHER -> "None"

\* the truth value of a scalar
Truthy(v) == (v.t = "num" /\ v.n # 0) \/ (v.t = "str" /\ v.s # <<>>)

\* the empty dicts that stand for a missing nested object
EmptySys == [country |-> <<>>, sunrise |-> <<>>, sunset |-> <<>>]
EmptyMain == [temp |-> <<>>, feels_like |-> <<>>, humidity |-> <<>>, pressure |-> <<>>]
EmptyItem == [description |-> <<>>, main |-> <<>>]
EmptyWind == [speed |-> <<>>, deg |-> <<>>]
EmptyClouds == [all |-> <<>>]
EmptyDict ==
    [cod |-> <<>>, message |-> <<>>, name |-> <<>>, sys |-> <<>>, main |-> <<>>,
     weather |-> <<>>, wind |-> <<>>, visibility |-> <<>>, clouds |-> <<>>]

\* two decimal digits, as %H, %M and %S print them
TwoDigits(k) == IF k < 10 THEN "0" \o ToString(k) ELSE ToString(k)

\* datetime.fromtimestamp(e).strftime('%H:%M:%S'), the local zone taken as UTC
strftime(e) ==
    TwoDigits((e \div 3600) % 24) \o ":" \o TwoDigits((e \div 60) % 60)
        \o ":" \o TwoDigits(e % 60)

\* the icons table of display_weather (names stand for the emoji)
icons ==
    [clear |-> "sun", clouds |-> "cloud", rain |-> "rain", drizzle |-> "drizzle",
     thunderstorm |-> "storm", snow |-> "snowflake", mist |-> "mist",
     smoke |-> "smoke", haze |-> "haze", dust |-> "dust", fog |-> "fog"]

Banner50 == "=================================================="
Banner30 == "------------------------------"

\* the unit symbol of line 110, without its degree sign
unit_symbol(u) == IF u = "metric" THEN "C" ELSE "F"

(***************************************************************************)
(* WeatherApp.display_weather: the lines it prints and the exception it    *)
(* raises ("" when it returns normally).  A line is the sequence of the    *)
(* fragments its f-string joins.  All extraction happens before            *)
(* the first report line is printed, so an exception there prints nothing. *)
(***************************************************************************)
\* the report of a response whose cod is 200 and whose fields extract cleanly
report_lines(d, u) ==
    LET sys == Get(d.sys, EmptySys)
        main == Get(d.main, EmptyMain)
        item == Get(d.weather, <<EmptyItem>>)[1]
        wind == Get(d.wind, EmptyWind)
        city == Get(d.name, Str(<<"U", "n", "k", "n", "o", "w", "n">>))
        country == Get(sys.country, Str(<<>>))
        temp == Get(main.temp, NA)
        feels_like == Get(main.feels_like, NA)
        humidity == Get(main.humidity, NA)
        pressure == Get(main.pressure, NA)
        weather_desc == title(Get(item.description, NA).s)
        wind_speed == Get(wind.speed, NA)
        winddir == Get(wind.deg, NA)
        visibility == Get(d.visibility, NA)
        sunrise == Get(sys.sunrise, None)
        sunset == Get(sys.sunset, None)
        sunrise_time == IF Truthy(sunrise) THEN strftime(sunrise.n) ELSE "N/A"
        sunset_time == IF Truthy(sunset) THEN strftime(sunset.n) ELSE "N/A"
        weather_main == Join(lower(Get(item.main, Str(<<>>)).s))
        icon == IF weather_main \in DOMAIN icons THEN icons[weather_main] ELSE "rainbow"
        clouds == Get(Get(d.clouds, EmptyClouds).all, NA)
    IN  << <<"\n", Banner50>>,
           <<"WEATHER FORECAST - ", Fmt(city), ", ", Fmt(country)>>,
           <<Banner50>>,
           <<"\nCurrent Conditions: ", Join(weather_desc)>>,
           <<"Temperature: ", Fmt(temp), unit_symbol(u), " (Feels like: ",
             Fmt(feels_like), unit_symbol(u), ")">>,
           <<"Humidity: ", Fmt(humidity), "%">>,
           <<"Pressure: ", Fmt(pressure), " hPa">>,
           <<"Wind Speed: ", Fmt(wind_speed), " m/s">> >>
        \o (IF winddir # NA
            THEN << <<"Wind Direction: ", compass(winddir.n), " (", Fmt(winddir), ")">> >>
            ELSE << >>)
        \o << (IF visibility # NA
               THEN <<"Visibility: ", Fmt(visibility), " meters">>
               ELSE <<"Visibility: N/A">>),
              <<"Sunrise: ", sunrise_time>>,
              <<"Sunset: ", sunset_time>>,
              <<"\n", Banner30>>,
              <<"Additional Details:">>,
              <<Banner30>>,
              <<"Weather Icon: ", icon>>,
              <<"Cloud Coverage: ", Fmt(clouds), "%">>,
              <<Banner50, "\n">> >>

\* the exception the extraction of lines 83-107 and 124-141 raises, "" if none
extraction_error(d) ==
    LET list == Get(d.weather, <<EmptyItem>>)
        sys == Get(d.sys, EmptySys)
        winddir == Get(Get(d.wind, EmptyWind).deg, NA)
    IN  IF Len(list) = 0 THEN "IndexError"
        ELSE IF Get(list[1].description, NA).t # "str" THEN "AttributeError"
        ELSE IF \E ts \in {Get(sys.sunrise, None), Get(sys.sunset, None)} :
                    Truthy(ts) /\ ts.t # "num" THEN "TypeError"
        ELSE IF winddir # NA /\ winddir.t # "num" THEN "TypeError"
        ELSE IF Get(list[1].main, Str(<<>>)).t # "str" THEN "AttributeError"
        ELSE ""

\* 'Unknown error', the default of the message field
UnknownError ==
    Str(<<"U", "n", "k", "n", "o", "w", "n", " ", "e", "r", "r", "o", "r">>)

\* a faulty variant: the status test of line 78 left out
display_weather_no_cod_test(d, u) ==
    IF d = EmptyDict
    THEN [lines |-> << <<"No weather data to display.">> >>, raised |-> ""]
    ELSE IF extraction_error(d) # ""
    THEN [lines |-> <<>>, raised |-> extraction_error(d)]
    ELSE [lines |-> report_lines(d, u), raised |-> ""]

display_weather(d, u) ==
    IF d = EmptyDict
    THEN [lines |-> << <<"No weather data to display.">> >>, raised |-> ""]
    ELSE IF Get(d.cod, None) # Num(200)
    THEN [lines |-> << <<"Error: ", Fmt(Get(d.message, UnknownError))>> >>,
          raised |-> ""]
    ELSE IF extraction_error(d) # ""
    THEN [lines |-> <<>>, raised |-> extraction_error(d)]
    ELSE [lines |-> report_lines(d, u), raised |-> ""]

(***************************************************************************)
(* Values the variables hold while the code that uses them is not running. *)
(***************************************************************************)
NoInput == [kind |-> "none", text |-> <<>>]
NoProbe == [kind |-> "none", name |-> "", status |-> 0, bases |-> {}]

Idle ==
    /\ units = "unset"
    /\ location = <<>>
    /\ sent = <<>>
    /\ out = <<>>
    /\ inp = NoInput
    /\ picked = "none"
    /\ probe = NoProbe
    /\ reply = "none"

(***************************************************************************)
(* SpecValidate: validate_input applied to every string of at most MaxLen  *)
(* characters over a digit, the hyphen, a blank and a letter.              *)
(***************************************************************************)
ValidateChars == {"1", "-", " ", "a"}

ValidateInputs == UNION {[1..k -> ValidateChars] : k \in 0..MaxLen}

InitValidate ==
    /\ Idle
    /\ pc = "validate"
    /\ \E s \in ValidateInputs : weather_data = EmptyDict /\ ret = <<s>>
    /\ wind_dir = 0

Validate ==
    /\ pc = "validate"
    /\ pc' = "validated"
    /\ ret' = <<ret[1], validate_input(ret[1])>>
    /\ UNCHANGED <<units, location, sent, out, inp, picked, weather_data, wind_dir, probe, reply>>

NextValidate == Validate

SpecValidate == InitValidate /\ [][NextValidate]_vars

(***************************************************************************)
(* SpecCompass: the compass mapping applied to every integer degree of     *)
(* -MaxDeg .. MaxDeg and to the same degree one full turn later; `before`  *)
(* keeps the compass point found before the turn.                          *)
(***************************************************************************)
InitCompass ==
    /\ Idle
    /\ pc = "compass"
    /\ wind_dir \in (-MaxDeg)..MaxDeg
    /\ weather_data = EmptyDict
    /\ ret = <<>>

Compass ==
    /\ pc = "compass"
    /\ pc' = "compassed"
    /\ ret' = [index |-> compass_index(wind_dir), name |-> compass(wind_dir),
               before |-> ""]
    /\ UNCHANGED <<units, location, sent, out, inp, picked, weather_data, wind_dir, probe, reply>>

FullTurn ==
    /\ pc = "compassed"
    /\ wind_dir <= MaxDeg
    /\ wind_dir' = wind_dir + 360
    /\ ret' = [index |-> compass_index(wind_dir'), name |-> compass(wind_dir'),
               before |-> ret.name]
    /\ UNCHANGED <<pc, units, location, sent, out, inp, picked, weather_data, probe, reply>>

NextCompass == Compass \/ FullTurn

SpecCompass == InitCompass /\ [][NextCompass]_vars

(***************************************************************************)
(* SpecDisplay: display_weather applied to responses with every subset of  *)
(* the consumed fields absent, under either unit preference.               *)
(***************************************************************************)
London == Str(<<"L", "o", "n", "d", "o", "n">>)
ClearSky == Str(<<"c", "l", "e", "a", "r", " ", "s", "k", "y">>)
Clear == Str(<<"C", "l", "e", "a", "r">>)
CityNotFound ==
    Str(<<"c", "i", "t", "y", " ", "n", "o", "t", " ", "f", "o", "u", "n", "d">>)

SysSet ==
    [country : Opt({Str(<<"G", "B">>)}), sunrise : Opt({Num(24300)}),
     sunset : Opt({Num(66600)})]
MainSet ==
    [temp : Opt({Num(22)}), feels_like : Opt({Num(21)}), humidity : Opt({Num(65)}),
     pressure : Opt({Num(1013)})]
ItemSet == [description : Opt({ClearSky}), main : Opt({Clear})]
WeatherLists == {<<>>} \cup {<<i>> : i \in ItemSet}
WindSet == [speed : Opt({Num(5)}), deg : Opt({Num(315)})]
CloudsSet == [all : Opt({Num(0)})]

\* responses with cod = 200 and every subset of the consumed fields absent
SuccessResponses ==
    [cod : {<<Num(200)>>}, message : {<<>>}, name : Opt({London}), sys : Opt(SysSet),
     main : Opt(MainSet), weather : Opt(WeatherLists), wind : Opt(WindSet),
     visibility : Opt({Num(10000)}), clouds : Opt(CloudsSet)]

FullSys == [country |-> <<Str(<<"G", "B">>)>>, sunrise |-> <<Num(24300)>>,
            sunset |-> <<Num(66600)>>]
FullMain == [temp |-> <<Num(22)>>, feels_like |-> <<Num(21)>>,
             humidity |-> <<Num(65)>>, pressure |-> <<Num(1013)>>]
FullItem == [description |-> <<ClearSky>>, main |-> <<Clear>>]
FullWind == [speed |-> <<Num(5)>>, deg |-> <<Num(315)>>]
FullClouds == [all |-> <<Num(0)>>]

\* responses whose cod is absent, another number or a string, with or without
\* a message, each other top-level field absent or complete
FailureResponses ==
    [cod : Opt({Num(404), Num(401), Str(<<"4", "0", "4">>), Str(<<"2", "0", "0">>)}),
     message : Opt({CityNotFound}), name : Opt({London}), sys : Opt({FullSys}),
     main : Opt({FullMain}), weather : Opt({<<>>, <<FullItem>>}),
     wind : Opt({FullWind}), visibility : Opt({Num(10000)}),
     clouds : Opt({FullClouds})]

DisplayResponses == SuccessResponses \cup FailureResponses

InitDisplay ==
    /\ location = <<>> /\ sent = <<>> /\ out = <<>> /\ inp = NoInput
    /\ picked = "none" /\ probe = NoProbe /\ wind_dir = 0 /\ reply = "none"
    /\ pc = "display"
    /\ units \in {"metric", "imperial"}
    /\ weather_data \in DisplayResponses
    /\ ret = [lines |-> <<>>, raised |-> ""]

Display ==
    /\ pc = "display"
    /\ pc' = "displayed"
    /\ ret' = display_weather(weather_data, units)
    /\ out' = ret'.lines
    /\ UNCHANGED <<units, location, sent, inp, picked, weather_data, wind_dir, probe, reply>>

NextDisplay == Display

SpecDisplay == InitDisplay /\ [][NextDisplay]_vars

(***************************************************************************)
(* The weather client: get_weather_by_city and get_weather_by_zip.         *)
(***************************************************************************)
\* the query parameters of get_weather_by_city (the API key is left out)
city_params(city_name, u) ==
    [sel |-> "q", value |-> Join(city_name), units |-> u, lang |-> "en"]

\* a faulty variant: the ZIP request built without its country code
zip_params_no_country(zip_code, country_code, u) ==
    [sel |-> "zip", value |-> Join(zip_code), units |-> u, lang |-> "en"]

\* the query parameters of get_weather_by_zip
zip_params(zip_code, country_code, u) ==
    [sel |-> "zip", value |-> Join(zip_code) \o "," \o Join(country_code),
     units |-> u, lang |-> "en"]

\* How a request can end: a 2xx response with a JSON body; a RequestException
\* (no connection, an error status through raise_for_status, and, with the
\* requests releases that derive JSONDecodeError from it, a body that is not
\* JSON); a ValueError (a body that is not JSON, with the older releases); a
\* KeyboardInterrupt arriving while the request blocks.
ReplyKinds == {"json", "RequestException", "ValueError", "KeyboardInterrupt"}

\* the try/except of get_weather_by_city and get_weather_by_zip: the value
\* returned (<<>> is None), what is printed, and the exception left uncaught
fetch(kind, data) ==
    CASE kind = "json" -> [result |-> <<data>>, lines |-> <<>>, raised |-> ""]
      [] kind = "RequestException" ->
            [result |-> <<>>,
             lines |-> << <<"Error fetching weather data: ", kind>> >>,
             raised |-> ""]
      [] OTHER -> [result |-> <<>>, lines |-> <<>>, raised |-> kind]

(***************************************************************************)
(* WeatherApp.set_units                                                    *)
(***************************************************************************)
Celsius == <<"c", "e", "l", "s", "i", "u", "s">>
Fahrenheit == <<"f", "a", "h", "r", "e", "n", "h", "e", "i", "t">>
Metric == <<"m", "e", "t", "r", "i", "c">>
Imperial == <<"i", "m", "p", "e", "r", "i", "a", "l">>

\* a faulty variant: every name sets the default unit
set_units_always_metric(name) ==
    [units |-> "metric", lines |-> <<>>]

set_units(name) ==
    IF lower(name) \in {<<"c">>, Celsius, Metric}
    THEN [units |-> "metric", lines |-> <<>>]
    ELSE IF lower(name) \in {<<"f">>, Fahrenheit, Imperial}
    THEN [units |-> "imperial", lines |-> <<>>]
    ELSE [units |-> "metric",
          lines |-> << <<"Invalid unit. Using Celsius (metric) by default.">> >>]

(***************************************************************************)
(* The menu loop of WeatherApp.run and its two menu actions.               *)
(***************************************************************************)
MainMenuText ==
    << <<"\n", Banner30>>, <<"MAIN MENU">>, <<Banner30>>,
       <<"1. Check weather by location">>, <<"2. Change temperature units">>,
       <<"3. Exit">> >>

UnitsMenuText ==
    << <<"\n", Banner30>>, <<"TEMPERATURE UNITS">>, <<Banner30>>,
       <<"1. Celsius (C)">>, <<"2. Fahrenheit (F)">> >>

RunBanner ==
    << <<Banner50>>, <<"BASIC WEATHER APPLICATION">>, <<Banner50>>,
       <<"\nWelcome to the Weather App!">>,
       <<"You can search weather by city name or ZIP code.">> >>

\* what input() gives: a line, or EOFError when the terminal is closed
Line(text) == [kind |-> "line", text |-> text]
EOF == [kind |-> "EOF", text |-> <<>>]
CtrlC == [kind |-> "KeyboardInterrupt", text |-> <<>>]

\* the states in which the loop of run() is running
LoopStates == {"MainMenu", "CheckingWeather", "CountryPrompt", "ChangingUnits"}

\* a faulty variant: no `except Exception` clause, any exception ends the loop
resume_no_except(raised) == IF raised = "" THEN "MainMenu" ELSE "Exited"

\* where the try/except of run() (lines 193-217) leaves control after one
\* iteration that raised `raised` ("" for none)
resume(raised) == IF raised = "KeyboardInterrupt" THEN "Exited" ELSE "MainMenu"

\* what the except clauses of run() print, and the menu of the next iteration
caught(raised) ==
    IF raised = "" THEN MainMenuText
    ELSE IF raised = "KeyboardInterrupt"
    THEN << <<"\n\nProgram interrupted. Exiting...">> >>
    ELSE << <<"An unexpected error occurred: ", raised>> >> \o MainMenuText

\* lines 243-246 of check_weather: show the data or say there is none
show_results(got, u) ==
    IF got.raised # "" THEN [lines |-> got.lines, raised |-> got.raised]
    ELSE IF got.result # <<>> /\ got.result[1] # EmptyDict
    THEN [lines |-> got.lines \o display_weather(got.result[1], u).lines,
          raised |-> display_weather(got.result[1], u).raised]
    ELSE [lines |-> got.lines \o
            << <<"Could not retrieve weather data. Please check your input and try again.">> >>,
          raised |-> ""]

\* lines 236-237 of check_weather: the country code, "US" for an empty reply
country_or_default(text) == IF strip(text) # <<>> THEN strip(text) ELSE <<"U", "S">>

\* a faulty variant: a choice outside the menu selects Celsius
units_choice_default_celsius(choice) ==
    IF choice = <<"2">> THEN "fahrenheit" ELSE "celsius"

\* lines 260-267 of change_units: the unit a choice selects, "" for none
units_choice(choice) ==
    IF choice = <<"1">> THEN "celsius"
    ELSE IF choice = <<"2">> THEN "fahrenheit"
    ELSE ""

\* a faulty variant: any answer but "no" shows the demo
demo_accepted_unless_no(text) == lower(strip(text)) # <<"n", "o">>

\* lines 303-304 of main: whether the answer to the demo prompt asks for it
demo_accepted(text) == lower(strip(text)) = <<"y", "e", "s">>

(***************************************************************************)
(* The inputs of the model.                                                *)
(***************************************************************************)
FullReport ==
    [cod |-> <<Num(200)>>, message |-> <<>>, name |-> <<London>>, sys |-> <<FullSys>>,
     main |-> <<FullMain>>, weather |-> << <<FullItem>> >>, wind |-> <<FullWind>>,
     visibility |-> <<Num(10000)>>, clouds |-> <<FullClouds>>]

MenuResponses ==
    { FullReport,
      [FullReport EXCEPT !.weather = << <<>> >>],
      [EmptyDict EXCEPT !.cod = <<Num(200)>>],
      [EmptyDict EXCEPT !.cod = <<Str(<<"4", "0", "4">>)>>, !.message = <<CityNotFound>>],
      EmptyDict }

MenuLines ==
    { <<"1">>, <<"2">>, <<"3">>, <<"4">>, <<>>, <<" ", "2", " ">>, <<"x">> }

LocationLines ==
    { <<>>, <<" ", " ">>,
      <<"1", "0", "0", "0", "1">>,
      <<"1", "0", "0", "0", "1", "-", "1", "2">>,
      <<"1", "2", "3", "4">>,
      <<"-", "-">>,
      <<"N", "e", "w", " ", "Y", "o", "r", "k">>,
      <<" ", "P", "a", "r", "i", "s", " ">> }

CountryLines == { <<>>, <<" ">>, <<"U", "K">>, <<" ", "I", "N", " ">> }

DemoLines ==
    { <<"y", "e", "s">>, <<" ", "Y", "E", "S", " ">>, <<"n", "o">>, <<"y">>, <<>> }

Response(status) == [kind |-> "response", name |-> "", status |-> status, bases |-> {}]
Exc(name, bases) == [kind |-> "exception", name |-> name, status |-> 0, bases |-> bases]

\* the classes of requests.exceptions, each with the classes it derives from
ProbeExceptions ==
    { Exc("ConnectionError", {"ConnectionError", "RequestException", "Exception"}),
      Exc("ConnectTimeout",
          {"ConnectTimeout", "ConnectionError", "Timeout", "RequestException", "Exception"}),
      Exc("ReadTimeout", {"ReadTimeout", "Timeout", "RequestException", "Exception"}),
      Exc("TooManyRedirects", {"TooManyRedirects", "RequestException", "Exception"}) }

ProbeStatuses == {200, 401, 403, 404, 429, 500}

\* Ctrl-C while the startup request blocks: no clause of main names it
ProbeInterrupt == Exc("KeyboardInterrupt", {"KeyboardInterrupt", "BaseException"})

ProbeOutcomes ==
    {Response(c) : c \in ProbeStatuses} \cup ProbeExceptions \cup {ProbeInterrupt}

(***************************************************************************)
(* main() and display_demo_weather().                                      *)
(***************************************************************************)
display_demo_weather ==
    << <<"\n", Banner50>>, <<"DEMO WEATHER DATA - LONDON (Sample)">>, <<Banner50>>,
       <<"\nCurrent Conditions: Clear Sky">>,
       <<"Temperature: 22C (Feels like: 21C)">>, <<"Humidity: 65%">>,
       <<"Pressure: 1013 hPa">>, <<"Wind Speed: 5.5 m/s">>,
       <<"Wind Direction: NW (315)">>, <<"Visibility: 10000 meters">>,
       <<"Sunrise: 06:45:00">>, <<"Sunset: 18:30:00">>,
       <<"\n", Banner30>>, <<"Additional Details:">>, <<Banner30>>,
       <<"Weather Icon: sun">>, <<"Cloud Coverage: 0%">>, <<Banner50>> >>

Guidance401 ==
    << <<"ERROR 401: Invalid API Key">>, <<"\nDon't worry! This usually means:">>,
       <<"1. Your key needs 10-15 minutes to activate (just wait)">>,
       <<"2. Check if you verified your email">>,
       <<"3. Make sure you're using HTTP (not HTTPS)">>,
       <<"\nYour key: YOUR_API_KEY_HERE">>, <<"Key length: 32 characters">>,
       <<"\nQuick test in browser:">>, <<"Open: ", "<test_url>">> >>

\* the except clauses of main (lines 309-314) for an exception of the given
\* classes: the lines printed (an exception no clause names prints nothing here)
main_except(name, bases) ==
    IF "ConnectionError" \in bases
    THEN << <<"No internet connection. Please check your network.">> >>
    ELSE IF "Exception" \in bases
    THEN << <<"Error: ", name>>, <<"\nTrying demo mode...">> >> \o display_demo_weather
    ELSE << >>

\* a faulty variant: the `except ConnectionError` clause left out
probe_handler_no_connection_clause(o) ==
    IF o.kind = "response" /\ o.status = 200
    THEN [pc |-> "MainMenu", units |-> "metric",
          lines |-> << <<"API key is VALID and working!">>, <<"Starting Weather App...\n">> >>
                    \o RunBanner \o MainMenuText]
    ELSE IF o.kind = "response" /\ o.status = 401
    THEN [pc |-> "DemoPrompt", units |-> "unset", lines |-> Guidance401]
    ELSE IF o.kind = "response"
    THEN [pc |-> "Exited", units |-> "unset",
          lines |-> << <<"Status ", ToString(o.status), ": ", "<response.text[:100]>">> >>]
    ELSE [pc |-> "Exited", units |-> "unset",
          lines |-> main_except(o.name, o.bases \ {"ConnectionError"})]

\* lines 283-314 of main, up to the first prompt: where control goes, the
\* units of the WeatherApp if one is created, and the lines printed
probe_handler(o) ==
    IF o.kind = "response" /\ o.status = 200
    THEN [pc |-> "MainMenu", units |-> "metric",
          lines |-> << <<"API key is VALID and working!">>, <<"Starting Weather App...\n">> >>
                    \o RunBanner \o MainMenuText]
    ELSE IF o.kind = "response" /\ o.status = 401
    THEN [pc |-> "DemoPrompt", units |-> "unset", lines |-> Guidance401]
    ELSE IF o.kind = "response"
    THEN [pc |-> "Exited", units |-> "unset",
          lines |-> << <<"Status ", ToString(o.status), ": ", "<response.text[:100]>">> >>]
    ELSE [pc |-> "Exited", units |-> "unset", lines |-> main_except(o.name, o.bases)]

Init ==
    /\ pc = "Probe"
    /\ units = "unset"
    /\ location = <<>>
    /\ sent = <<>>
    /\ out = <<>>
    /\ inp = NoInput
    /\ picked = "none"
    /\ weather_data = EmptyDict
    /\ ret = <<>>
    /\ wind_dir = 0
    /\ probe = NoProbe
    /\ reply = "none"

\* main(): the startup request and what follows it, up to the first prompt
main ==
    /\ pc = "Probe"
    /\ \E o \in ProbeOutcomes :
        /\ probe' = o
        /\ pc' = probe_handler(o).pc
        /\ units' = probe_handler(o).units
        /\ out' = << <<"Testing your OpenWeatherMap API key...">> >> \o probe_handler(o).lines
    /\ UNCHANGED <<location, sent, inp, picked, weather_data, ret, wind_dir, reply>>

\* main(), lines 303-305: the answer to the demo prompt
main_demo_prompt ==
    /\ pc = "DemoPrompt"
    /\ pc' = "Exited"
    /\ \E e \in {Line(t) : t \in DemoLines} \cup {EOF} :
        /\ inp' = e
        /\ out' = IF e.kind = "EOF"
                  THEN main_except("EOFError", {"EOFError", "Exception"})
                  ELSE IF demo_accepted(e.text) THEN display_demo_weather
                  ELSE << >>
    /\ UNCHANGED <<units, location, sent, picked, weather_data, ret, wind_dir, probe, reply>>

\* the end of one iteration of the loop of run(): its except clauses, and
\* the menu printed by the next iteration if there is one
EndIteration(lines, raised) ==
    /\ pc' = resume(raised)
    /\ out' = lines \o caught(raised)

\* run(), lines 201-217: one choice at the main menu
run ==
    /\ pc = "MainMenu"
    /\ \E e \in {Line(t) : t \in MenuLines} \cup {EOF} :
        /\ inp' = e
        /\ IF e.kind = "EOF" THEN EndIteration(<< >>, "EOFError")
           ELSE IF strip(e.text) = <<"1">> THEN pc' = "CheckingWeather" /\ out' = << >>
           ELSE IF strip(e.text) = <<"2">> THEN pc' = "ChangingUnits" /\ out' = UnitsMenuText
           ELSE IF strip(e.text) = <<"3">>
           THEN /\ pc' = "Exited"
                /\ out' = << <<"\nThank you for using the Weather App! Goodbye!">> >>
           ELSE EndIteration(<< <<"Invalid choice. Please enter 1, 2, or 3.">> >>, "")
    /\ sent' = << >>
    /\ reply' = "none"
    /\ UNCHANGED <<units, location, picked, weather_data, ret, wind_dir, probe>>

\* check_weather(), lines 223-246: the location prompt, and for a city name
\* the request and the report
check_weather ==
    /\ pc = "CheckingWeather"
    /\ \E e \in {Line(t) : t \in LocationLines} \cup {EOF} :
        /\ inp' = e
        /\ IF e.kind = "EOF"
           THEN /\ EndIteration(<< >>, "EOFError")
                /\ sent' = << >> /\ reply' = "none"
                /\ UNCHANGED <<location, weather_data>>
           ELSE IF ~validate_input(strip(e.text))[1]
           THEN /\ EndIteration(<< <<"Invalid input. Please try again.">> >>, "")
                /\ sent' = << >> /\ reply' = "none"
                /\ UNCHANGED <<location, weather_data>>
           ELSE IF validate_input(strip(e.text))[2] = "zip"
           THEN /\ pc' = "CountryPrompt"
                /\ location' = strip(e.text)
                /\ out' = << >>
                /\ sent' = << >> /\ reply' = "none"
                /\ UNCHANGED weather_data
           ELSE \E kind \in ReplyKinds, data \in MenuResponses :
                /\ kind # "json" => data = EmptyDict
                /\ sent' = <<city_params(strip(e.text), units)>>
                /\ reply' = kind
                /\ weather_data' = data
                /\ EndIteration(show_results(fetch(kind, data), units).lines,
                                show_results(fetch(kind, data), units).raised)
                /\ UNCHANGED location
    /\ UNCHANGED <<units, picked, ret, wind_dir, probe>>

\* check_weather(), lines 236-246: the country prompt of a ZIP code, the
\* request and the report
check_weather_country ==
    /\ pc = "CountryPrompt"
    /\ \E e \in {Line(t) : t \in CountryLines} \cup {EOF} :
        /\ inp' = e
        /\ IF e.kind = "EOF"
           THEN /\ EndIteration(<< >>, "EOFError")
                /\ sent' = << >> /\ reply' = "none"
                /\ UNCHANGED weather_data
           ELSE \E kind \in ReplyKinds, data \in MenuResponses :
                /\ kind # "json" => data = EmptyDict
                /\ sent' = <<zip_params(location, country_or_default(e.text), units)>>
                /\ reply' = kind
                /\ weather_data' = data
                /\ EndIteration(show_results(fetch(kind, data), units).lines,
                                show_results(fetch(kind, data), units).raised)
    /\ location' = << >>
    /\ UNCHANGED <<units, picked, ret, wind_dir, probe>>

\* change_units(), lines 258-267
change_units ==
    /\ pc = "ChangingUnits"
    /\ \E e \in {Line(t) : t \in MenuLines} \cup {EOF} :
        /\ inp' = e
        /\ IF e.kind = "EOF"
           THEN EndIteration(<< >>, "EOFError") /\ UNCHANGED <<units, picked>>
           ELSE IF units_choice(strip(e.text)) = "celsius"
           THEN /\ units' = set_units(Celsius).units
                /\ picked' = "celsius"
                /\ EndIteration(set_units(Celsius).lines \o
                        << <<"Temperature units changed to Celsius (C)">> >>, "")
           ELSE IF units_choice(strip(e.text)) = "fahrenheit"
           THEN /\ units' = set_units(Fahrenheit).units
                /\ picked' = "fahrenheit"
                /\ EndIteration(set_units(Fahrenheit).lines \o
                        << <<"Temperature units changed to Fahrenheit (F)">> >>, "")
           ELSE /\ EndIteration(<< <<"Invalid choice. Keeping current units.">> >>, "")
                /\ UNCHANGED <<units, picked>>
    /\ sent' = << >>
    /\ reply' = "none"
    /\ UNCHANGED <<location, weather_data, ret, wind_dir, probe>>

\* Ctrl-C while the process waits at a prompt: run() catches it and leaves its
\* loop (lines 213-215); main() does not catch it
KeyboardInterrupt ==
    /\ pc \in LoopStates \cup {"DemoPrompt"}
    /\ inp' = CtrlC
    /\ IF pc \in LoopStates THEN EndIteration(<< >>, "KeyboardInterrupt")
       ELSE pc' = "Exited" /\ out' = << >>
    /\ sent' = << >>
    /\ reply' = "none"
    /\ location' = << >>
    /\ UNCHANGED <<units, picked, weather_data, ret, wind_dir, probe>>

Next ==
    \/ main
    \/ main_demo_prompt
    \/ run
    \/ check_weather
    \/ check_weather_country
    \/ change_units
    \/ KeyboardInterrupt

Spec == Init /\ [][Next]_vars

(***************************************************************************)
(* The claims.                                                             *)
(***************************************************************************)
HasLine(lines, l) == \E i \in 1..Len(lines) : lines[i] = l

DemoShown(lines) == HasLine(lines, <<"DEMO WEATHER DATA - LONDON (Sample)">>)

\* only blanks (or nothing at all)
Blank(s) == \A i \in 1..Len(s) : s[i] \in WhitespaceChars

\* digits and hyphens only, with at least five digits
LooksLikeZip(s) ==
    /\ \A i \in 1..Len(s) : s[i] \in DigitChars \cup {"-"}
    /\ Cardinality({i \in 1..Len(s) : s[i] \in DigitChars}) >= 5

\* C1: validate_input classifies every string three ways: an empty or
\* whitespace-only string is invalid; otherwise a string of digits and hyphens
\* with at least 5 digits is a valid "zip"; every other string is a valid "city".
C1_Classifier ==
    pc = "validated" =>
        IF Blank(ret[1]) THEN ret[2][1] = FALSE
        ELSE IF LooksLikeZip(ret[1]) THEN ret[2] = <<TRUE, "zip">>
        ELSE ret[2] = <<TRUE, "city">>

C1_Witness ==
    /\ pc = "validated"
    /\ ret[1] = <<"1", "1", "-", "1", "1", "1">>
    /\ ret[2] = <<TRUE, "zip">>

\* C10: the compass index is always in 0..7, the compass point of a degree is
\* the same one full turn (360) later, for negative degrees and degrees beyond
\* 359 too, and 0 is N, 45 is NE, 315 is NW, 360 is N and 400 is NE.
C10_Compass ==
    pc = "compassed" =>
        /\ ret.index \in 0..7
        /\ ret.name = directions[ret.index + 1]
        /\ ret.before # "" => ret.name = ret.before
        /\ wind_dir \in {0, 360} => ret.name = "N"
        /\ wind_dir \in {45, 400} => ret.name = "NE"
        /\ wind_dir = 315 => ret.name = "NW"

C10_Witness ==
    pc = "compassed" /\ wind_dir = 400 /\ ret.before = "NE" /\ ret.name = "NE"

\* C6: for a non-empty response whose cod is not the number 200, display_weather
\* prints exactly one line, "Error: " and the message field ("Unknown error"
\* when it is absent), and raises nothing, whatever else the response holds.
C6_ErrorLineOnly ==
    (pc = "displayed" /\ weather_data # EmptyDict /\ weather_data.cod # <<Num(200)>>) =>
        /\ ret.raised = ""
        /\ out = << <<"Error: ",
                      IF weather_data.message = <<>> THEN "Unknown error"
                      ELSE Fmt(weather_data.message[1])>> >>

C6_Witness ==
    /\ pc = "displayed"
    /\ weather_data.cod = <<Str(<<"2", "0", "0">>)>>
    /\ weather_data.message = <<>>
    /\ weather_data.main = <<FullMain>>
    /\ out = << <<"Error: ", "Unknown error">> >>

\* C7: for a response with cod = 200 and any subset of the consumed fields
\* absent (a weather list with no elements included), display_weather raises
\* nothing and prints the report down to the closing banner.
C7_AlwaysCompletes ==
    (pc = "displayed" /\ weather_data.cod = <<Num(200)>>) =>
        /\ ret.raised = ""
        /\ Len(out) > 0
        /\ out[Len(out)] = <<Banner50, "\n">>

\* the unit symbols printed on the temperature lines of a report
SymbolsShown(lines) ==
    UNION {{lines[i][3], lines[i][6]} :
                i \in {j \in 1..Len(lines) : lines[j][1] = "Temperature: "}}

C2_State ==
    /\ (units # "unset" /\ picked = "none") => units = "metric"
    /\ picked = "fahrenheit" =>
        /\ units = "imperial"
        /\ \A i \in 1..Len(sent) : sent[i].units = "imperial"
        /\ SymbolsShown(out) \subseteq {"F"}
    /\ picked \in {"celsius", "none"} =>
        /\ \A i \in 1..Len(sent) : sent[i].units = "metric"
        /\ SymbolsShown(out) \subseteq {"C"}

C2_Step ==
    units' # units =>
        \/ pc = "Probe" /\ units = "unset" /\ units' = "metric"
        \/ /\ pc = "ChangingUnits"
           /\ inp'.kind = "line"
           /\ strip(inp'.text) \in {<<"1">>, <<"2">>}

\* C2: the unit preference starts as metric and changes only when the user
\* picks 1 or 2 in the units sub-menu; after Fahrenheit is picked every fetch
\* sends units=imperial and every report shows the F symbol, through any
\* sequence of checks, failed fetches and invalid choices, until a unit is
\* picked again; the same for Celsius with units=metric and the C symbol.
C2_UnitPreference == []C2_State /\ [][C2_Step]_vars

C2_Witness ==
    /\ picked = "fahrenheit"
    /\ pc = "MainMenu"
    /\ Len(sent) = 1
    /\ sent[1].sel = "zip"
    /\ weather_data = FullReport
    /\ SymbolsShown(out) = {"F"}

C3_Interrupted == inp'.kind = "KeyboardInterrupt" \/ reply' = "KeyboardInterrupt"

C3_ChoseExit == pc = "MainMenu" /\ inp'.kind = "line" /\ strip(inp'.text) = <<"3">>

C3_Step ==
    /\ (pc \in LoopStates /\ pc' = "Exited") => (C3_ChoseExit \/ C3_Interrupted)
    /\ (pc \in LoopStates /\ (C3_ChoseExit \/ C3_Interrupted)) => pc' = "Exited"
    /\ (pc \in LoopStates \ {"MainMenu"} /\ pc' # "Exited") =>
            \/ pc' = "MainMenu"
            \/ pc = "CheckingWeather" /\ pc' = "CountryPrompt"
    /\ pc = "Exited" => pc' = "Exited"

\* C3: in the loop of run() every menu action hands control back to the main
\* menu, whether it completes or raises an unexpected error (a failed fetch, an
\* error while rendering); the loop is left only on the choice 3 or on a
\* KeyboardInterrupt, and on either of them it is left, for good.
C3_LoopRecovers == [][C3_Step]_vars

C3_Witness ==
    /\ pc = "MainMenu"
    /\ reply = "json"
    /\ HasLine(out, <<"An unexpected error occurred: ", "IndexError">>)

\* C4 as claimed: a startup request that ends with a status other than 200 and
\* 401, or with a network failure (a RequestException of any kind), prints an
\* error message and then the demo report.
C4_AlwaysDemo ==
    (/\ pc = "Exited"
     /\ \/ probe.kind = "response" /\ probe.status \notin {200, 401}
        \/ "RequestException" \in probe.bases) =>
        /\ Len(out) > Len(display_demo_weather)
        /\ DemoShown(out)

\* C4 as amended: a status other than 200 and 401 prints one status line and
\* no demo report; a connection error (a connect timeout is one) prints one
\* no-connection line and no demo report; any other request exception (a read
\* timeout among them) prints an error line, "Trying demo mode..." and then
\* the demo report.
C4_DemoOnlyOnOtherExceptions ==
    pc = "Exited" =>
        /\ (probe.kind = "response" /\ probe.status \notin {200, 401}) =>
                /\ out[Len(out)][1] = "Status "
                /\ out[Len(out)][2] = ToString(probe.status)
                /\ Len(out) = 2
                /\ ~DemoShown(out)
        /\ "ConnectionError" \in probe.bases =>
                /\ out[Len(out)] = <<"No internet connection. Please check your network.">>
                /\ Len(out) = 2
                /\ ~DemoShown(out)
        /\ ("RequestException" \in probe.bases /\ "ConnectionError" \notin probe.bases) =>
                /\ out[2] = <<"Error: ", probe.name>>
                /\ out[3] = <<"\nTrying demo mode...">>
                /\ SubSeq(out, 4, Len(out)) = display_demo_weather

C4_Witness ==
    /\ pc = "Exited"
    /\ probe.name = "ConnectTimeout"
    /\ ~DemoShown(out)

\* C5: after a 401 at startup and an answer to the demo prompt that is not
\* "yes" (in any letter case, blanks around it aside), the process ends with no
\* WeatherApp created, no demo report printed and the menu loop never entered;
\* the menu loop runs only after a startup request that returned 200.
C5_NoLoopWithoutValidKey ==
    /\ (/\ probe.kind = "response" /\ probe.status = 401
        /\ pc = "Exited"
        /\ inp.kind = "line"
        /\ inp.text \notin {<<"y", "e", "s">>, <<" ", "Y", "E", "S", " ">>}) =>
            /\ units = "unset"
            /\ ~DemoShown(out)
    /\ (pc \in LoopStates \/ units # "unset") =>
            (probe.kind = "response" /\ probe.status = 200)

C5_Witness ==
    /\ pc = "Exited"
    /\ probe.kind = "response" /\ probe.status = 401
    /\ inp = Line(<<"y">>)
    /\ out = << >>

C8_Step ==
    /\ (pc = "CheckingWeather" /\ inp'.kind = "line") =>
            IF Blank(inp'.text) THEN sent' = << >> /\ pc' = "MainMenu"
            ELSE IF LooksLikeZip(strip(inp'.text))
            THEN sent' = << >> /\ pc' = "CountryPrompt" /\ location' = strip(inp'.text)
            ELSE /\ Len(sent') = 1
                 /\ sent'[1].sel = "q"
                 /\ sent'[1].value = Join(strip(inp'.text))
                 /\ pc' # "CountryPrompt"
    /\ (pc = "CountryPrompt" /\ inp'.kind = "line") =>
            /\ Len(sent') = 1
            /\ sent'[1].sel = "zip"
            /\ sent'[1].value =
                    Join(location) \o "," \o
                    (IF Blank(inp'.text) THEN "US" ELSE Join(strip(inp'.text)))
    /\ (pc = "CheckingWeather" /\ inp' = Line(<<"N", "e", "w", " ", "Y", "o", "r", "k">>)) =>
            sent' = <<[sel |-> "q", value |-> "New York", units |-> units, lang |-> "en"]>>
    /\ (pc = "CountryPrompt" /\ location = <<"1", "0", "0", "0", "1">> /\ inp' = Line(<<>>)) =>
            sent' = <<[sel |-> "zip", value |-> "10001,US", units |-> units, lang |-> "en"]>>
    /\ (pc \notin {"CheckingWeather", "CountryPrompt"} \/ inp'.kind # "line") =>
            sent' = << >>

\* C8: in check_weather a postal code leads, after the country prompt, to
\* exactly one fetch with zip=<code>,<country>, the country being the reply or
\* "US" for an empty reply ("10001" and an empty reply give zip=10001,US); a
\* city leads to exactly one fetch with q=<the trimmed input> and no country
\* prompt ("New York" gives q=New York); an empty input leads to no fetch.
C8_OneFetchPerQuery == [][C8_Step]_vars

C8_Witness ==
    /\ Len(sent) = 1
    /\ sent[1].value = "10001,US"
    /\ inp = Line(<<>>)

C9_MainRejected ==
    (pc = "MainMenu" /\ inp'.kind = "line"
        /\ strip(inp'.text) \notin {<<"1">>, <<"2">>, <<"3">>}) =>
            /\ pc' = "MainMenu"
            /\ units' = units
            /\ out' = << <<"Invalid choice. Please enter 1, 2, or 3.">> >> \o MainMenuText

C9_UnitsChoiceOutside ==
    pc = "ChangingUnits" /\ inp'.kind = "line" /\ strip(inp'.text) \notin {<<"1">>, <<"2">>}

\* C9 as claimed: an input outside the menu is rejected with a message, the
\* menu that received it is the next prompt (the main menu after the main menu,
\* the units sub-menu after the units sub-menu), and the units stay as they are.
C9_SameMenuAgain ==
    [][/\ C9_MainRejected
       /\ C9_UnitsChoiceOutside => (pc' = "ChangingUnits" /\ units' = units)]_vars

\* C9 as amended: an input outside the main menu is rejected with a message
\* and the main menu is the next prompt; an input outside the units sub-menu
\* is rejected with a message and the next prompt is the main menu, not the
\* units sub-menu; in both cases the units stay as they are.
C9_RejectedBackToMainMenu ==
    [][/\ C9_MainRejected
       /\ C9_UnitsChoiceOutside =>
            /\ pc' = "MainMenu"
            /\ units' = units
            /\ out' = << <<"Invalid choice. Keeping current units.">> >> \o MainMenuText]_vars

C9_Witness ==
    /\ pc = "MainMenu"
    /\ picked = "fahrenheit"
    /\ units = "imperial"
    /\ inp = Line(<<"x">>)
    /\ HasLine(out, <<"Invalid choice. Keeping current units.">>)

====
